---- MODULE Spec2Model ----
(***************************************************************************)
(* A model of net::UdpConnection (src/udp/UdpConnection.cpp): two          *)
(* connection objects on one host, the kernel's datagram sockets behind    *)
(* their descriptors, and the loopback path between them.  Connection A    *)
(* is used in every way (bind, connect, recv, send, destruction);          *)
(* connection B is the peer of the scenarios, which connects and sends.    *)
(* The byte-order helpers of src/udp/net.h are modelled beside it and      *)
(* exercised on their own (OrderSpec).                                     *)
(***************************************************************************)
EXTENDS Integers, Sequences, FiniteSets, TLC

\* ------------------------------------------------------------------ bounds
MaxLen      == 3    \* longest payload exchanged
MaxQueue    == 1    \* datagrams a socket's receive queue holds
MaxCalls    == 2    \* calls of to_network_order() on one data element

\* --------------------------------------------------------------- constants
AF_INET   == 2
SizeofInt == 4                          \* sizeof(int), in bytes

Conns     == {"A", "B"}
Servers   == {"A"}                      \* connections that also bind and recv
Ports     == {258, 259}                 \* 0x0102 and 0x0103
BindNames == {"", "localhost", "nosuchhost"}
Hosts     == {"localhost", "nosuchhost"}
Timeouts  == {-1, 0, 5}                 \* block, poll, five milliseconds
\* What a ::recvfrom() call meets: "" is success, the others the errno of
\* a failed call.
RecvErrors == {"", "EWOULDBLOCK", "EIO"}
InAddrAny == <<0, 0, 0, 0>>
Loopback  == <<127, 0, 0, 1>>
NoHost    == <<>>

\* The payload of n bytes 0x41, 0x42, 0x43, ...
Payload(n) == [i \in 1..n |-> 64 + i]
Buffers    == {Payload(0), Payload(MaxLen)}
Sizes      == {MaxLen - 1, MaxLen}
\* The (size, timeout, conn) arguments of the recv calls: a buffer for the
\* longest payload with every timeout, and polls with a shorter buffer and
\* with the conn flag.
RecvArgs   == {<<MaxLen, t, FALSE>> : t \in Timeouts}
                  \cup {<<s, 0, FALSE>> : s \in Sizes}
                  \cup {<<MaxLen, 0, TRUE>>}

Min(a, b) == IF a < b THEN a ELSE b

\* The data elements handed to to_network_order(): the size of T and the
\* bytes of the element as they lie in memory, lowest address first.
ScalarSizes == {1, 2, 4, 8}
ByteValues  == {1, 2}
Scalars     == UNION {[1..n -> ByteValues] : n \in ScalarSizes}
\* A data element through its calls of to_network_order(): its bytes now
\* (data), its bytes before the first call (orig), the calls made.
NoScalar    == [data |-> <<>>, orig |-> <<>>, calls |-> 0]

NoAddr   == [family |-> 0, port |-> 0, addr |-> InAddrAny]
\* _remote_addr before connect() first writes it: never assigned.
Indeterminate == [family |-> -1, port |-> -1, addr |-> <<>>]
\* A datagram: its addresses and bytes, and for the record the connection
\* that wrote it (from) and the buffer that connection passed to send (orig).
NoDgram  == [from |-> "none", src |-> NoAddr, dst |-> NoAddr, data |-> <<>>,
             orig |-> <<>>]
\* The record of a call: its arguments, the state it found (pre_*), the
\* system calls it issued on the descriptor with their results, whether it
\* blocked, and what it returned (bool as 0/1); for bind and connect,
\* whether the name they were given is one that resolves.
NoCall   == [c |-> "none", op |-> "none", ret |-> 0, sys |-> <<>>,
             blocked |-> FALSE, timeout |-> 0, size |-> 0, data |-> <<>>,
             dg |-> NoDgram, pre_init |-> FALSE, pre_conn |-> FALSE,
             pre_queued |-> 0, errno |-> "", conn |-> FALSE,
             resolvable |-> FALSE]
NoWait   == [size |-> 0, timeout |-> 0, conn |-> FALSE]
Sys(name, rc) == [call |-> name, rc |-> rc]

VARIABLES
    big_endian,     \* the host's byte order
    _fd,            \* Fd _fd: the descriptor ::socket() returned, -1 on failure
    _is_init,       \* bool _is_init
    _is_connected,  \* bool _is_connected
    _remote_addr,   \* struct sockaddr_in _remote_addr
    sock,           \* the kernel socket behind _fd: local name, peer, queue
    pc,             \* "idle", or "recv_wait" while recv() is blocked in poll
    wait,           \* the arguments of the blocked recv()
    connect_ok,     \* history: a connect() call on c has returned true
    last,           \* the call that has just returned, until its result is taken
    scalar,         \* the data element to_network_order() works on
    alive,          \* the connection object has not been destroyed
    closes          \* history: the ::close() calls made on the descriptor

vars == <<big_endian, _fd, _is_init, _is_connected, _remote_addr, sock, pc,
          wait, connect_ok, last, scalar, alive, closes>>

\* ------------------------------------------------------ library and kernel
\* htons(): the 16-bit value whose in-memory bytes are the big-endian bytes.
htons(p) == IF big_endian THEN p ELSE (p % 256) * 256 + (p \div 256)

\* gethostbyname(): the first IPv4 address of the name, or NULL.
gethostbyname(name) == IF name = "localhost" THEN Loopback ELSE NoHost

\* The descriptor number ::socket() hands to a connection when it succeeds.
FdOf(c) == IF c = "A" THEN 3 ELSE 4

\* The port the kernel picks when an unbound socket connects.
EphemeralPort(c) == IF c = "A" THEN 49152 ELSE 49153

NoSock == [local |-> NoAddr, peer |-> NoAddr, rxq |-> <<>>]

\* ::bind(): fails on a socket that already has a name, on a port another
\* socket holds, and whenever the kernel refuses (envok = FALSE).
os_bind(c, addr, envok) ==
    LET free == \A o \in Conns \ {c} : sock[o].local.port # addr.port
        ok   == envok /\ sock[c].local = NoAddr /\ free
    IN  [rc   |-> IF ok THEN 0 ELSE -1,
         sock |-> IF ok THEN [sock[c] EXCEPT !.local = addr] ELSE sock[c]]

\* ::connect() on a datagram socket: records the peer, names the socket if
\* it has no name yet; a failure leaves the socket as it was.
os_connect(c, addr, envok) ==
    LET auto == [family |-> AF_INET, port |-> htons(EphemeralPort(c)),
                 addr |-> InAddrAny]
    IN  [rc   |-> IF envok THEN 0 ELSE -1,
         sock |-> IF envok
                  THEN [sock[c] EXCEPT !.peer = addr,
                            !.local = IF @ = NoAddr THEN auto ELSE @]
                  ELSE sock[c]]

\* ::write() on a connected datagram socket: one datagram holding all the
\* bytes, addressed to the socket's peer, or -1.
os_write(c, bytes, envok) ==
    [rc |-> IF envok THEN Len(bytes) ELSE -1,
     dg |-> IF envok
            THEN [from |-> c,
                  src  |-> [sock[c].local EXCEPT !.addr = Loopback],
                  dst  |-> sock[c].peer,
                  data |-> bytes,
                  orig |-> <<>>]
            ELSE NoDgram]

\* ::recvfrom(): takes the first queued datagram, truncated to size bytes,
\* or fails with -1 and an errno, leaving the queue as it is.
os_recvfrom(c, size, err) ==
    LET q  == sock[c].rxq
        ok == err = "" /\ q # <<>>
        n  == IF ok THEN Min(size, Len(q[1].data)) ELSE 0
    IN  [rc   |-> IF ok THEN n ELSE -1,
         errno |-> IF ok THEN "" ELSE IF err = "" THEN "EWOULDBLOCK" ELSE err,
         data |-> IF ok THEN SubSeq(q[1].data, 1, n) ELSE <<>>,
         dg   |-> IF ok THEN q[1] ELSE NoDgram,
         sock |-> IF ok THEN [sock[c] EXCEPT !.rxq = Tail(q)] ELSE sock[c]]

\* Whether socket t takes datagram d: d is addressed to t's local name and,
\* when t is connected, comes from t's peer.
Accepts(t, d) ==
    /\ sock[t].local # NoAddr
    /\ sock[t].local.port = d.dst.port
    /\ d.dst.addr = Loopback
    /\ sock[t].local.addr \in {InAddrAny, d.dst.addr}
    /\ sock[t].peer \in {NoAddr, d.src}

\* ------------------------------------------------------------------ net.h
\* The bytes an n-byte integer v occupies in the host's memory.
HostBytes(v, n) ==
    [i \in 1..n |-> IF big_endian THEN (v \div 256^(n - i)) % 256
                                  ELSE (v \div 256^(i - 1)) % 256]

\* The 16-bit integer whose bytes in the host's memory are m.
HostValue16(m) == IF big_endian THEN m[1] * 256 + m[2] ELSE m[2] * 256 + m[1]

Reverse(m) == [i \in 1..Len(m) |-> m[Len(m) + 1 - i]]

\* a ^ b on chars.
RECURSIVE xor(_, _)
xor(a, b) ==
    IF a = 0 /\ b = 0 THEN 0
    ELSE ((a + b) % 2) + 2 * xor(a \div 2, b \div 2)

\* is_big_endian(): the first byte of the int 0x1 is zero.
is_big_endian == ~(HostBytes(1, SizeofInt)[1] # 0)

\* Variants of swap_call below, with one slip in it.
swap_call_first_by_reference(cp, i, j) ==
    LET a1 == xor(cp[i], cp[j])
        b1 == xor(cp[j], a1)
        a2 == xor(a1, b1)
    IN  [cp EXCEPT ![i] = a2]

\* The lambda swap of to_network_order(): its parameters a and b when it
\* returns, after a ^= b; b ^= a; a ^= b.
swap(a, b) ==
    LET a1 == xor(a, b)
        b1 == xor(b, a1)
        a2 == xor(a1, b1)
    IN  <<a2, b1>>

\* The call swap(cp[i], cp[j]), as it leaves the element's bytes.  The
\* lambda takes its two chars by value: it exchanges its own copies, and
\* cp[i] and cp[j] stay as they were.
swap_call(cp, i, j) ==
    LET copies == swap(cp[i], cp[j])
    IN  cp

\* for (int i = 0; i < N/2; i++) swap(cp[i], cp[N-i-1]), from index i on.
RECURSIVE swap_loop(_, _)
swap_loop(cp, i) ==
    LET N == Len(cp)
    IN  IF i < N \div 2
        THEN swap_loop(swap_call(cp, i + 1, N - i), i + 1)
        ELSE cp

\* to_network_order(data): the bytes of data when it returns.
to_network_order(data) ==
    IF ~is_big_endian THEN swap_loop(data, 0) ELSE data

\* ----------------------------------------------------------- Fd (Fd.h)
\* Fd's conversion to bool: the descriptor is valid.
Fd_bool(f) == f >= 0

\* Fd::can_read(timeout): "ready" when a datagram is queued; otherwise a
\* zero timeout expires at once and any other timeout blocks the caller.
can_read(c, timeout) ==
    IF sock[c].rxq # <<>> THEN "ready"
    ELSE IF timeout = 0 THEN "expired" ELSE "block"

\* Fd::can_write(timeout): whether the descriptor became writable in time.
can_write(timeout, writable) == writable

\* Fd::~Fd(): the ::close() calls it makes, one on a valid descriptor.
Fd_destroy(f) == IF Fd_bool(f) THEN 1 ELSE 0

\* ------------------------------------------------------- UdpConnection
_init_sockaddr(port, name) ==
    LET zero == [family |-> AF_INET, port |-> htons(port), addr |-> InAddrAny]
        he   == gethostbyname(name)
    IN  IF name = ""
        THEN [ok |-> TRUE, addr |-> zero]
        ELSE IF he = NoHost
             THEN [ok |-> FALSE, addr |-> zero]
             ELSE [ok |-> TRUE, addr |-> [zero EXCEPT !.addr = he]]


\* Variants of the definitions below, each with one slip in it.
recv_from_peer_unchecked(c, conn, dg) == TRUE
bind_guard_unconnected(c) == _is_init[c] /\ ~_is_connected[c]
send_guard_init_only(c)   == _is_init[c]
send_guard_inverted(c)    == _is_init[c] /\ ~_is_connected[c]
recv_guard_missing(c)     == TRUE
connect_commit_early(c, rc) == TRUE
recv_wait_arg_forever(timeout) == -1
recv_wait_arg_poll(timeout)    == 0
recv_return_timeout_error(readable, nbytes) ==
    IF ~readable THEN -1 ELSE IF nbytes < 0 THEN -1 ELSE nbytes
recv_return_flag(readable, nbytes) ==
    IF ~readable THEN 0 ELSE IF nbytes < 0 THEN -1 ELSE 1
send_return_empty_error(writable, nbytes) ==
    IF ~writable THEN 0 ELSE IF nbytes <= 0 THEN -1 ELSE nbytes
recv_return_empty_error(readable, nbytes) ==
    IF ~readable THEN 0 ELSE IF nbytes <= 0 THEN -1 ELSE nbytes
send_return_timeout_error(writable, nbytes) ==
    IF ~writable THEN -1 ELSE IF nbytes < 0 THEN -1 ELSE nbytes

\* The guards at the top of the methods.  AbortIfNot(cond, ret) makes the
\* method return ret when cond is false, AbortIf(cond, ret) when it is true.
bind_guard(c)    == _is_init[c]
connect_guard(c) == _is_init[c]
recv_guard(c)    == _is_init[c]
send_guard(c)    == _is_init[c] /\ _is_connected[c]

\* connect(): _is_connected after the ::connect() call returned rc.
connect_commit(c, rc) == IF rc # 0 THEN _is_connected[c] ELSE TRUE

\* recv(buf, timeout, conn), as UdpConnection.h declares it: whether the
\* datagram read is handed to the caller.  With conn set, a datagram whose
\* sender is not the stored remote address is discarded, and the call
\* returns zero bytes.
recv_from_peer(c, conn, dg) == conn => dg.src = _remote_addr[c]

\* recv(): the timeout handed to Fd::can_read().
recv_wait_arg(timeout) == timeout

\* recv(): the value returned once the wait is over.
recv_return(readable, nbytes) ==
    IF ~readable THEN 0 ELSE IF nbytes < 0 THEN -1 ELSE nbytes

\* send(): the value returned once the wait is over.
send_return(writable, nbytes) ==
    IF ~writable THEN 0 ELSE IF nbytes < 0 THEN -1 ELSE nbytes

Call(c, op) == [NoCall EXCEPT !.c = c, !.op = op,
                    !.pre_init = _is_init[c], !.pre_conn = _is_connected[c],
                    !.pre_queued = Len(sock[c].rxq)]

\* UdpConnection::UdpConnection(), for every connection.
Init ==
    /\ big_endian \in BOOLEAN
    /\ _fd \in [Conns -> {-1, 3, 4}]
    /\ \A c \in Conns : _fd[c] \in {-1, FdOf(c)}
    /\ _is_connected = [c \in Conns |-> FALSE]
    /\ _is_init = [c \in Conns |-> Fd_bool(_fd[c])]
    /\ _remote_addr = [c \in Conns |-> Indeterminate]
    /\ sock = [c \in Conns |-> NoSock]
    /\ pc = [c \in Conns |-> "idle"]
    /\ wait = [c \in Conns |-> NoWait]
    /\ connect_ok = [c \in Conns |-> FALSE]
    /\ last = NoCall
    /\ scalar = NoScalar
    /\ alive = [c \in Conns |-> TRUE]
    /\ closes = [c \in Conns |-> 0]

\* UdpConnection::bind(port, name)
Bind(c, port, name, envok) ==
    /\ alive[c]
    /\ last = NoCall
    /\ pc[c] = "idle"
    /\ LET a == _init_sockaddr(port, name)
           b == os_bind(c, a.addr, envok)
       IN  IF ~bind_guard(c) \/ ~a.ok
           THEN /\ last' = [Call(c, "bind") EXCEPT !.resolvable = a.ok]
                /\ UNCHANGED sock
           ELSE /\ sock' = [sock EXCEPT ![c] = b.sock]
                /\ last' = [Call(c, "bind") EXCEPT
                               !.resolvable = a.ok,
                               !.sys = <<Sys("bind", b.rc)>>,
                               !.ret = IF b.rc # 0 THEN 0 ELSE 1]
    /\ UNCHANGED <<scalar, alive, closes, big_endian, _fd, _is_init, _is_connected,
                   _remote_addr, pc,
                   wait, connect_ok>>

\* UdpConnection::connect(port, host)
Connect(c, port, host, envok) ==
    /\ alive[c]
    /\ last = NoCall
    /\ pc[c] = "idle"
    /\ LET a == _init_sockaddr(port, host)
           k == os_connect(c, a.addr, envok)
       IN  IF ~connect_guard(c)
           THEN /\ last' = [Call(c, "connect") EXCEPT !.resolvable = a.ok]
                /\ UNCHANGED <<sock, _remote_addr, _is_connected, connect_ok>>
           ELSE IF ~a.ok
           THEN /\ _remote_addr' = [_remote_addr EXCEPT ![c] = a.addr]
                /\ last' = [Call(c, "connect") EXCEPT !.resolvable = a.ok]
                /\ UNCHANGED <<sock, _is_connected, connect_ok>>
           ELSE /\ _remote_addr' = [_remote_addr EXCEPT ![c] = a.addr]
                /\ sock' = [sock EXCEPT ![c] = k.sock]
                /\ _is_connected' =
                       [_is_connected EXCEPT ![c] = connect_commit(c, k.rc)]
                /\ connect_ok' = [connect_ok EXCEPT ![c] = @ \/ k.rc = 0]
                /\ last' = [Call(c, "connect") EXCEPT
                               !.resolvable = a.ok,
                               !.sys = <<Sys("connect", k.rc)>>,
                               !.ret = IF k.rc # 0 THEN 0 ELSE 1]
    /\ UNCHANGED <<scalar, alive, closes, big_endian, _fd, _is_init, pc, wait>>

\* recv() from the point where Fd::can_read() has returned.
RecvFinish(c, size, timeout, conn, readable, blocked, err) ==
    LET r    == os_recvfrom(c, size, err)
        keep == r.rc < 0 \/ recv_from_peer(c, conn, r.dg)
        base == [Call(c, "recv") EXCEPT !.size = size, !.timeout = timeout,
                     !.blocked = blocked, !.conn = conn,
                     !.pre_queued = IF blocked THEN 0 ELSE @]
    IN  /\ pc' = [pc EXCEPT ![c] = "idle"]
        /\ wait' = [wait EXCEPT ![c] = NoWait]
        /\ IF ~readable
           THEN /\ last' = [base EXCEPT !.sys = <<Sys("poll", 0)>>,
                               !.ret = recv_return(FALSE, 0)]
                /\ UNCHANGED sock
           ELSE /\ sock' = [sock EXCEPT ![c] = r.sock]
                /\ last' = [base EXCEPT
                               !.sys = <<Sys("poll", 1),
                                         Sys("recvfrom", r.rc)>>,
                               !.data = IF keep THEN r.data ELSE <<>>,
                               !.dg = r.dg, !.errno = r.errno,
                               !.ret = IF keep THEN recv_return(TRUE, r.rc)
                                               ELSE 0]

\* UdpConnection::recv(buf, size, timeout): the call, up to its return or
\* to the point where it blocks in Fd::can_read().
RecvCall(c, size, timeout, conn, err) ==
    /\ alive[c]
    /\ last = NoCall
    /\ pc[c] = "idle"
    /\ IF ~recv_guard(c)
       THEN /\ last' = [Call(c, "recv") EXCEPT !.ret = -1, !.size = size,
                           !.timeout = timeout, !.conn = conn]
            /\ UNCHANGED <<sock, pc, wait>>
       ELSE LET w == can_read(c, recv_wait_arg(timeout))
            IN  IF w = "block"
                THEN /\ pc' = [pc EXCEPT ![c] = "recv_wait"]
                     /\ wait' = [wait EXCEPT ![c] =
                            [size |-> size, timeout |-> timeout,
                             conn |-> conn]]
                     /\ UNCHANGED <<sock, last>>
                ELSE RecvFinish(c, size, timeout, conn, w = "ready", FALSE,
                                err)
    /\ UNCHANGED <<scalar, alive, closes, big_endian, _fd, _is_init, _is_connected,
                   _remote_addr,
                   connect_ok>>

\* A blocked recv() wakes up: a datagram is queued.
RecvWake(c, err) ==
    /\ pc[c] = "recv_wait"
    /\ sock[c].rxq # <<>>
    /\ RecvFinish(c, wait[c].size, wait[c].timeout, wait[c].conn, TRUE, TRUE,
                  err)
    /\ UNCHANGED <<scalar, alive, closes, big_endian, _fd, _is_init, _is_connected,
                   _remote_addr,
                   connect_ok>>

\* A blocked recv() gives up: its timeout expired with nothing queued.
RecvExpire(c) ==
    /\ pc[c] = "recv_wait"
    /\ recv_wait_arg(wait[c].timeout) >= 0
    /\ sock[c].rxq = <<>>
    /\ RecvFinish(c, wait[c].size, wait[c].timeout, wait[c].conn, FALSE, TRUE,
                  "")
    /\ UNCHANGED <<scalar, alive, closes, big_endian, _fd, _is_init, _is_connected,
                   _remote_addr,
                   connect_ok>>

\* The loopback path: the kernel queues a written datagram on the socket
\* it is addressed to, unless no socket takes it, the queue is full or the
\* datagram is lost.
Transmit(d, lost) ==
    IF lost \/ d = NoDgram \/ ~\E t \in Conns :
                                  Accepts(t, d) /\ Len(sock[t].rxq) < MaxQueue
    THEN sock
    ELSE LET t == CHOOSE t \in Conns : Accepts(t, d)
         IN  [sock EXCEPT ![t].rxq = Append(@, d)]

\* UdpConnection::send(buf, size, timeout), size the length of buf.  A call
\* with timeout -1 returns only once the descriptor is writable.
Send(c, buf, timeout, writable, envok, lost) ==
    /\ alive[c]
    /\ last = NoCall
    /\ pc[c] = "idle"
    /\ timeout < 0 => writable
    /\ LET w == os_write(c, SubSeq(buf, 1, Len(buf)), envok)
           d == IF w.dg = NoDgram THEN NoDgram ELSE [w.dg EXCEPT !.orig = buf]
           base == [Call(c, "send") EXCEPT !.size = Len(buf), !.data = buf]
       IN  IF ~send_guard(c)
           THEN /\ last' = [base EXCEPT !.ret = -1]
                /\ UNCHANGED sock
           ELSE IF ~can_write(timeout, writable)
           THEN /\ last' = [base EXCEPT !.sys = <<Sys("poll", 0)>>,
                               !.ret = send_return(FALSE, 0)]
                /\ UNCHANGED sock
           ELSE /\ last' = [base EXCEPT
                               !.sys = <<Sys("poll", 1), Sys("write", w.rc)>>,
                               !.dg = d, !.ret = send_return(TRUE, w.rc)]
                /\ sock' = Transmit(d, lost)
    /\ UNCHANGED <<scalar, alive, closes, big_endian, _fd, _is_init, _is_connected,
                   _remote_addr, pc,
                   wait, connect_ok>>

\* A destructor that closes the descriptor itself, ahead of ~Fd().
Destroy_closing_twice(c) ==
    /\ alive[c]
    /\ last = NoCall
    /\ pc[c] = "idle"
    /\ alive' = [alive EXCEPT ![c] = FALSE]
    /\ closes' = [closes EXCEPT ![c] = @ + 1 + Fd_destroy(_fd[c])]
    /\ sock' = [sock EXCEPT ![c] = NoSock]
    /\ UNCHANGED <<scalar, big_endian, _fd, _is_init, _is_connected,
                   _remote_addr, pc, wait, connect_ok, last>>

\* UdpConnection::~UdpConnection(): the body is empty, and the member _fd
\* is destroyed with the object; the kernel drops a closed socket with
\* its name and its queue.  No call is in progress on the object, and
\* none is made on it afterwards.
Destroy(c) ==
    /\ alive[c]
    /\ last = NoCall
    /\ pc[c] = "idle"
    /\ alive' = [alive EXCEPT ![c] = FALSE]
    /\ closes' = [closes EXCEPT ![c] = @ + Fd_destroy(_fd[c])]
    /\ sock' = [sock EXCEPT ![c] = NoSock]
    /\ UNCHANGED <<scalar, big_endian, _fd, _is_init, _is_connected,
                   _remote_addr, pc, wait, connect_ok, last>>

\* The caller takes the result of the call that has just returned.
Return ==
    /\ last # NoCall
    /\ last' = NoCall
    /\ UNCHANGED <<scalar, alive, closes, big_endian, _fd, _is_init, _is_connected,
                   _remote_addr, sock,
                   pc, wait, connect_ok>>

Next ==
    \/ \E c \in Servers, p \in Ports, n \in BindNames, e \in BOOLEAN :
           Bind(c, p, n, e)
    \/ \E c \in Conns, p \in Ports, h \in Hosts, e \in BOOLEAN :
           Connect(c, p, h, e)
    \/ \E c \in Servers, a \in RecvArgs, e \in RecvErrors :
           RecvCall(c, a[1], a[2], a[3], e)
    \/ \E c \in Conns, e \in RecvErrors : RecvWake(c, e)
    \/ \E c \in Conns : RecvExpire(c)
    \/ \E c \in Conns, b \in Buffers, t \in Timeouts, w, e, l \in BOOLEAN :
           Send(c, b, t, w, e, l)
    \/ \E c \in Servers : Destroy(c)
    \/ Return

Spec == Init /\ [][Next]_vars

\* A blocked recv() wakes up once a datagram is queued: the kernel ends the
\* poll as soon as the descriptor is readable.
FairSpec ==
    Spec /\ \A c \in Servers : WF_vars(\E e \in RecvErrors : RecvWake(c, e))

\* --------------------------------------------- to_network_order() alone
\* Some data element on some host, and no connection in use.
OrderInit ==
    /\ big_endian \in BOOLEAN
    /\ scalar \in {[data |-> m, orig |-> m, calls |-> 0] : m \in Scalars}
    /\ _fd = [c \in Conns |-> -1]
    /\ _is_connected = [c \in Conns |-> FALSE]
    /\ _is_init = [c \in Conns |-> Fd_bool(_fd[c])]
    /\ _remote_addr = [c \in Conns |-> Indeterminate]
    /\ sock = [c \in Conns |-> NoSock]
    /\ pc = [c \in Conns |-> "idle"]
    /\ wait = [c \in Conns |-> NoWait]
    /\ connect_ok = [c \in Conns |-> FALSE]
    /\ last = NoCall
    /\ alive = [c \in Conns |-> TRUE]
    /\ closes = [c \in Conns |-> 0]

\* to_network_order(data), on the element as the call before left it.
ToNetworkOrder ==
    /\ scalar.calls < MaxCalls
    /\ scalar' = [scalar EXCEPT !.data = to_network_order(@),
                                !.calls = @ + 1]
    /\ UNCHANGED <<big_endian, _fd, _is_init, _is_connected, _remote_addr,
                   sock, pc, wait, connect_ok, last, alive, closes>>

OrderNext == ToNetworkOrder

OrderSpec == OrderInit /\ [][OrderNext]_vars

\* ------------------------------------------------------------- properties
\* What each operation returns when it fails: false, or -1.
Failure(op) == IF op \in {"bind", "connect"} THEN 0 ELSE -1

\* C1: on a connection whose descriptor was acquired, a send made before
\* any connect has returned success returns -1, whatever bind calls and
\* failed connect calls came before it.
C1_SendBeforeConnectFails ==
    (last.op = "send" /\ last.pre_init /\ ~connect_ok[last.c])
        => last.ret = -1

C1_Witness ==
    /\ last.op = "send" /\ last.pre_init /\ ~connect_ok[last.c]
    /\ sock[last.c].local # NoAddr
    /\ _remote_addr[last.c] # Indeterminate
    /\ last.ret = -1

\* C2: a send on a connection that is not Connected issues no readiness
\* wait and no write and emits nothing; every datagram ever written comes
\* from a connection on which connect has succeeded.
C2_UnconnectedSendIsInert ==
    /\ (last.op = "send" /\ ~last.pre_conn)
           => (last.sys = <<>> /\ last.dg = NoDgram /\ last.ret <= 0)
    /\ (last.op = "send" /\ last.dg # NoDgram) => connect_ok[last.c]
    /\ \A t \in Conns : \A i \in 1..Len(sock[t].rxq) :
           connect_ok[sock[t].rxq[i].from]

C2_Witness ==
    /\ last.op = "send" /\ last.pre_init /\ ~last.pre_conn
    /\ last.data = Payload(MaxLen)
    /\ sock[last.c].local # NoAddr
    /\ last.sys = <<>>

\* C3: a connection whose descriptor acquisition failed never becomes
\* initialized, and each of its bind, connect, recv and send calls returns
\* its failure result without a system call on the descriptor.
C3_UninitializedForever ==
    \A c \in Conns : _fd[c] < 0 =>
        /\ ~_is_init[c] /\ ~_is_connected[c]
        /\ sock[c] = NoSock /\ pc[c] = "idle"
        /\ last.c = c => (last.ret = Failure(last.op) /\ last.sys = <<>>)

C3_Witness ==
    /\ _fd["A"] < 0 /\ last.c = "A" /\ last.op = "recv" /\ last.timeout = -1
    /\ last.ret = -1

\* C4: _is_connected changes only in a connect call that returns true, and
\* only to true: failed connects leave it as it was and nothing resets it.
C4_ConnectedOnlyByConnect ==
    [][\A c \in Conns : _is_connected'[c] # _is_connected[c] =>
          (_is_connected'[c] /\ last'.c = c /\ last'.op = "connect"
             /\ last'.ret = 1)]_vars

C4_Witness ==
    /\ last.op = "connect" /\ last.pre_conn /\ last.ret = 0
    /\ last.sys = <<Sys("connect", -1)>>
    /\ _is_connected[last.c]

\* C5: once a connect call has succeeded no step changes _remote_addr.
C5_RemoteAddrImmutable ==
    [][\A c \in Conns :
          connect_ok[c] => _remote_addr'[c] = _remote_addr[c]]_vars

\* C6: after a successful connect the connection is Connected and a send is
\* never rejected; when the descriptor is writable it issues exactly one
\* write, and when that write succeeds it carried the whole buffer to the
\* connected peer and send returns the number of bytes.
C6_ConnectedSendWrites ==
    (last.op = "send" /\ connect_ok[last.c]) =>
        /\ _is_connected[last.c]
        /\ last.sys # <<>>
        /\ last.sys[1] = Sys("poll", 1) =>
              /\ Len(last.sys) = 2 /\ last.sys[2].call = "write"
              /\ last.sys[2].rc >= 0 =>
                    /\ last.dg.data = last.data
                    /\ last.dg.dst = sock[last.c].peer
                    /\ last.ret = Len(last.data)

C6_Witness ==
    /\ last.op = "send" /\ connect_ok[last.c]
    /\ last.data = Payload(MaxLen)
    /\ last.sys = <<Sys("poll", 1), Sys("write", MaxLen)>>
    /\ last.ret = MaxLen

\* C7: a recv on an initialized connection whose readiness wait times out
\* returns 0, reads nothing and does not return -1.
C7_RecvTimeoutIsZero ==
    (last.op = "recv" /\ last.pre_init) =>
        /\ last.sys # <<>>
        /\ last.sys[1] = Sys("poll", 0) =>
              (last.ret = 0 /\ Len(last.sys) = 1 /\ last.dg = NoDgram)

C7_Witness ==
    /\ last.op = "recv" /\ last.pre_init /\ last.blocked
    /\ last.timeout = 5 /\ last.sys = <<Sys("poll", 0)>> /\ last.ret = 0

\* C8: a recv with timeout 0 never blocks, and with nothing queued it
\* returns 0 at once, whatever the connection state.
C8_PollNeverBlocks ==
    /\ \A c \in Conns : pc[c] = "recv_wait" => wait[c].timeout # 0
    /\ (last.op = "recv" /\ last.pre_init /\ last.timeout = 0) =>
          /\ ~last.blocked
          /\ last.pre_queued = 0 =>
                (last.ret = 0 /\ last.sys = <<Sys("poll", 0)>>)

C8_Witness ==
    /\ last.op = "recv" /\ last.timeout = 0 /\ last.pre_queued = 0
    /\ last.pre_conn /\ sock[last.c].local.port = htons(258)
    /\ last.ret = 0 /\ ~last.blocked

\* C9: a recv with timeout -1 returns only when a datagram is queued (it
\* never returns from a timed-out wait), and a blocked one returns once a
\* datagram has arrived.
C9_BlockingRecv ==
    /\ [](( last.op = "recv" /\ last.pre_init /\ last.timeout = -1) =>
            /\ last.sys # <<>>
            /\ last.sys[1] = Sys("poll", 1)
            /\ ~last.blocked => last.pre_queued > 0)
    /\ [][\A c \in Conns :
            (pc[c] = "recv_wait" /\ wait[c].timeout = -1 /\ pc'[c] = "idle")
                => sock[c].rxq # <<>>]_vars
    /\ \A c \in Servers :
          (pc[c] = "recv_wait" /\ wait[c].timeout = -1 /\ sock[c].rxq # <<>>)
              ~> (pc[c] = "idle")

C9_Witness ==
    /\ last.op = "recv" /\ last.timeout = -1 /\ last.blocked
    /\ last.ret = MaxLen

\* A recv, called without the conn flag, has read a datagram that another
\* connection wrote.
Delivered ==
    /\ last.op = "recv" /\ last.dg # NoDgram /\ last.dg.from # last.c
    /\ ~last.conn

\* C10 as stated: a recv that reads the datagram another connection sent
\* returns the number of bytes sent and the bytes sent, in order, and its
\* readiness wait ended with the descriptor readable.
C10_EndToEndDelivery ==
    Delivered =>
        /\ last.ret = Len(last.dg.orig)
        /\ last.data = last.dg.orig
        /\ last.sys[1] = Sys("poll", 1)

\* C10, amended: the same, for a recv whose size is at least the number of
\* bytes sent.
C10_EndToEndDeliveryWithinSize ==
    (Delivered /\ last.size >= Len(last.dg.orig)) =>
        /\ last.ret = Len(last.dg.orig)
        /\ last.data = last.dg.orig
        /\ last.sys[1] = Sys("poll", 1)

C10_Witness ==
    /\ Delivered /\ last.c = "A" /\ last.dg.from = "B"
    /\ sock["A"].local = [family |-> AF_INET, port |-> htons(258),
                          addr |-> Loopback]
    /\ sock["B"].peer = sock["A"].local
    /\ last.dg.orig = Payload(MaxLen) /\ last.size = MaxLen
    /\ last.timeout = 5 /\ last.blocked
    /\ last.ret = MaxLen /\ last.data = Payload(MaxLen)

\* C11: an empty buffer is legal.  A send of a 0-byte buffer on a
\* Connected connection whose descriptor is writable issues the write and,
\* when the write succeeds, returns 0 and not -1; a recv that reads the
\* empty datagram so sent returns 0 and not -1.
C11_EmptyBufferIsLegal ==
    /\ (last.op = "send" /\ last.pre_init /\ last.pre_conn
            /\ last.data = <<>> /\ last.sys # <<>>
            /\ last.sys[1] = Sys("poll", 1)) =>
          /\ Len(last.sys) = 2 /\ last.sys[2].call = "write"
          /\ last.sys[2].rc >= 0 => (last.ret = 0 /\ last.dg.data = <<>>)
    /\ (last.op = "recv" /\ last.dg # NoDgram /\ last.dg.orig = <<>>) =>
          (last.ret = 0 /\ last.data = <<>>)

C11_Witness ==
    /\ last.op = "recv" /\ last.c = "A" /\ last.dg.from = "B"
    /\ last.dg.orig = <<>> /\ last.dg.data = <<>>
    /\ last.sys = <<Sys("poll", 1), Sys("recvfrom", 0)>>
    /\ last.ret = 0

\* C12: to_network_order agrees with is_big_endian: one call leaves the
\* bytes of the element as they were on a big-endian host and reverses
\* them on a little-endian host, so that the 16-bit value 0x0102 stays
\* 0x0102 on the one and becomes 0x0201 on the other; an element of one
\* byte is unchanged everywhere.
C12_NetworkOrderByEndianness ==
    scalar.calls = 1 =>
        /\ scalar.data = IF is_big_endian THEN scalar.orig
                                          ELSE Reverse(scalar.orig)
        /\ (Len(scalar.orig) = 2 /\ HostValue16(scalar.orig) = 258) =>
              HostValue16(scalar.data) = IF is_big_endian THEN 258 ELSE 513
        /\ Len(scalar.orig) = 1 => scalar.data = scalar.orig

\* C13: to_network_order is an involution: for an element of 1, 2, 4 or 8
\* bytes, whatever its value and the host's byte order, two calls leave
\* the bytes the element had before the first.
C13_NetworkOrderInvolution ==
    scalar.calls = 2 => scalar.data = scalar.orig

C13_Witness ==
    /\ scalar.calls = 2 /\ ~is_big_endian
    /\ Len(scalar.orig) = 8 /\ scalar.orig # Reverse(scalar.orig)
    /\ scalar.data = scalar.orig

\* C14: once a connection is Connected to a peer, every datagram a later
\* recv returns comes from that peer, also when it was queued on the bound
\* descriptor before the connect, and every datagram a send emits is
\* addressed to that peer.
C14_ExclusivePeer ==
    /\ (last.op = "recv" /\ last.pre_conn /\ last.dg # NoDgram
            /\ last.ret > 0) =>
          last.dg.src = _remote_addr[last.c]
    /\ (last.op = "send" /\ last.dg # NoDgram) =>
          last.dg.dst = _remote_addr[last.c]

\* The recv that breaks C14 with the stored address and the socket's peer
\* in agreement: the datagram was queued before the connect.
C14_QueuedBeforeConnect ==
    /\ last.op = "recv" /\ last.c = "A" /\ last.pre_conn /\ ~last.conn
    /\ last.dg.from = "B" /\ last.ret = MaxLen
    /\ _remote_addr["A"] = sock["A"].peer
    /\ last.dg.src # _remote_addr["A"]

\* C15: the descriptor acquired at construction is released exactly once,
\* when the connection is destroyed and not before, whatever was done with
\* the connection; when the acquisition failed nothing is released; and
\* after the release no bind, connect, wait, read or write goes through
\* the descriptor.
C15_ReleasedExactlyOnce ==
    \A c \in Conns :
        /\ alive[c] => closes[c] = 0
        /\ ~alive[c] =>
              /\ closes[c] = IF _fd[c] >= 0 THEN 1 ELSE 0
              /\ pc[c] = "idle" /\ last.c # c /\ sock[c] = NoSock

C15_Witness ==
    /\ ~alive["A"] /\ closes["A"] = 1 /\ _fd["A"] >= 0
    /\ _is_connected["A"] /\ connect_ok["B"]

\* The system calls of the given name in the record of the last call.
SysCalls(name) == {i \in 1..Len(last.sys) : last.sys[i].call = name}

\* C16: a send on a Connected connection whose descriptor does not become
\* writable within the timeout returns 0, not -1, and writes nothing; one
\* send call makes at most one readiness wait and at most one write.
C16_SendTimeoutIsZero ==
    last.op = "send" =>
        /\ Cardinality(SysCalls("poll")) <= 1
        /\ Cardinality(SysCalls("write")) <= 1
        /\ (last.pre_init /\ last.pre_conn) =>
              /\ last.sys # <<>>
              /\ last.sys[1] = Sys("poll", 0) =>
                    /\ last.ret = 0
                    /\ SysCalls("write") = {}
                    /\ last.dg = NoDgram

C16_Witness ==
    /\ last.op = "send" /\ last.pre_init /\ last.pre_conn
    /\ last.data = Payload(MaxLen) /\ sock[last.c].peer # NoAddr
    /\ last.sys = <<Sys("poll", 0)>> /\ last.ret = 0

\* C17: a recv (without the conn flag) on an initialized connection whose
\* descriptor is reported readable makes exactly one datagram read; it returns -1 exactly when
\* that read failed for a reason other than would-block, so that a read
\* failing with would-block is not reported as an error; and a read that
\* succeeds returns the number of bytes received.
C17_RecvErrorUnlessWouldBlock ==
    (last.op = "recv" /\ last.pre_init /\ ~last.conn /\ last.sys # <<>>
        /\ last.sys[1] = Sys("poll", 1)) =>
        /\ SysCalls("recvfrom") = {2} /\ Len(last.sys) = 2
        /\ last.ret = -1 <=>
              (last.sys[2].rc < 0 /\ last.errno # "EWOULDBLOCK")
        /\ last.sys[2].rc >= 0 =>
              (last.ret = last.sys[2].rc /\ last.ret = Len(last.data))

C19_OnlyConnectChangesState ==
    [][/\ \A c \in Conns :
             (\/ _is_init'[c] # _is_init[c]
              \/ _is_connected'[c] # _is_connected[c]
              \/ _remote_addr'[c] # _remote_addr[c])
                 => (last' # last /\ last'.op = "connect" /\ last'.c = c)
       /\ (last' # last /\ last'.op = "bind" /\ last'.pre_init
               /\ last'.resolvable)
             => (Len(last'.sys) = 1 /\ last'.sys[1].call = "bind")]_vars

C19_Witness ==
    /\ last.op = "bind" /\ last.pre_init /\ last.pre_conn
    /\ last.resolvable /\ last.sys = <<Sys("bind", -1)>>
    /\ _is_connected[last.c] /\ _remote_addr[last.c] = sock[last.c].peer

\* C20: whenever a connection is Connected, its stored remote address is
\* the peer its socket is connected to; in particular after a connect call
\* that failed on an already Connected connection.
C20_RemoteAddrIsPeer ==
    \A c \in Conns :
        (alive[c] /\ _is_connected[c]) => _remote_addr[c] = sock[c].peer
====
